---- MODULE Spec2Model ----
(***************************************************************************)
(* Order dispatch and warehouse ledger of the grocery delivery server      *)
(* (src/src/server.ts), modelled as operations on the relational store.    *)
(*                                                                         *)
(* The store is an external PostgreSQL database that outlives the server   *)
(* process: initDb creates tables only IF NOT EXISTS and back-fills        *)
(* warehouse_stock from products, so the server starts against whatever    *)
(* rows earlier runs left.  A statement sent through the pool (db.query)   *)
(* commits on its own; statements sent through a client between BEGIN and  *)
(* COMMIT become visible together or, after ROLLBACK, not at all.          *)
(*                                                                         *)
(* The specifications share the variables:                                 *)
(*   Spec           orders, order events, couriers and carts (dispatch);   *)
(*   SpecWarehouse  stock ledger, product aggregate and pick tasks;        *)
(*   SpecEdits      stock requests among overlapping product edits;        *)
(*   SpecFleet      status, connect and verification requests on a store   *)
(*                  with waiting orders, with statements that may fail;    *)
(*   SpecSelect     assignCourierIfPossible on fleets of every load;       *)
(*   SpecCheckout   POST /api/orders with the bodies it validates;         *)
(*   SpecCapacity   claims and automatic assignments at the load limit;    *)
(*   SpecLocks      ledger transactions and their row locks;               *)
(*   SpecLog        concurrent writers of one order's status and events.   *)
(***************************************************************************)
EXTENDS Integers, Sequences, FiniteSets, TLC

VARIABLES
    \* ---- warehouse side ----
    products,    \* products.stock_quantity / in_stock, by product id
    ws,          \* warehouse_stock rows, by <<warehouse_id, product_id>>
    movements,   \* stock_movements, in insertion (id) order
    tasks,       \* pick_tasks with their pick_task_items, by id (position)
    now,         \* the value NOW() returns to the next committing statement
    puts,        \* in-flight PUT /api/admin/products/:productId requests
    resp,        \* the last response a warehouse handler sent
    txs,         \* ledger transactions followed statement by statement
    \* ---- dispatch side ----
    orders,      \* orders with their order_items, by id (position)
    events,      \* order_events, in insertion (id) order
    couriers,    \* couriers rows, by courier id
    carts,       \* cart_items, by user id and product id
    procs        \* in-flight order / courier requests

wvars == <<products, ws, movements, tasks, now, puts, txs>>
dvars == <<orders, events, couriers, carts, procs>>
vars == <<products, ws, movements, tasks, now, puts, resp, txs,
          orders, events, couriers, carts, procs>>

----------------------------------------------------------------------------
(* Bounds of the model *)

MaxQty == 1
MaxClock == 2
MaxMovements == 2
MaxTasks == 3
NumPuts == 2
NumTxs == 2

PutSlots == 1..NumPuts
TxSlots == 1..NumTxs

\* NULL of a BIGINT / TIMESTAMPTZ column
NULL == 0

\* id of the warehouse with code 'MAIN', the first row of warehouses
MainWarehouse == 1

\* ids of the rows of products and of warehouses: two products on sale, the
\* MAIN warehouse and a second one
Products == {1, 2}
Warehouses == {MainWarehouse, 2}
Cells == Warehouses \X Products

Max(a, b) == IF a >= b THEN a ELSE b

RECURSIVE SumOver(_, _)
SumOver(S, f) ==
    IF S = {} THEN 0
    ELSE LET x == CHOOSE y \in S : TRUE IN f[x] + SumOver(S \ {x}, f)

----------------------------------------------------------------------------
(* Warehouse ledger *)

\* a (warehouse, product) pair that has no warehouse_stock row yet
NoRow == [present |-> FALSE, quantity |-> 0, reserved_quantity |-> 0]

\* the database as one statement sees it
Store == [products |-> products, ws |-> ws, movements |-> movements, tasks |-> tasks]

\* INSERT ... VALUES ($1, $2, 0, 0, 5, 20) ON CONFLICT DO NOTHING
ensureWarehouseStockRow(db, w, p) ==
    IF db.ws[<<w, p>>].present THEN db
    ELSE [db EXCEPT !.ws[<<w, p>>] = [present |-> TRUE, quantity |-> 0, reserved_quantity |-> 0]]

\* Math.max(quantity - reserved_quantity, 0) of the locked row
\* (availableNoReserve: the same figure with the reservation left out)
availableNoReserve(row) == row.quantity
available(row) == Max(row.quantity - row.reserved_quantity, 0)

\* PostgreSQL accepts a parameterised statement only when the placeholders
\* its text uses are exactly $1..$n for the n values bound to it.
\* (StatementBindsAny: a server that accepts whatever is bound)
StatementBindsAny(placeholders, nvalues) == TRUE
StatementBinds(placeholders, nvalues) == placeholders = 1..nvalues

\* placeholders in the text of sync's UPDATE products (stock_quantity = $1,
\* CASE WHEN $1 <= 0, WHERE id = $3) and the values [available, productId]
SyncUpdatePlaceholders == {1, 3}
SyncUpdateValues == <<"available", "productId">>

syncProductAvailabilityFromWarehouse(db, p) ==
    LET rows == {c \in Cells : c[2] = p /\ db.ws[c].present}
        totalQuantity == SumOver(rows, [c \in Cells |-> db.ws[c].quantity])
        totalReserved == SumOver(rows, [c \in Cells |-> db.ws[c].reserved_quantity])
        avail == Max(totalQuantity - totalReserved, 0)
    IN IF StatementBinds(SyncUpdatePlaceholders, Len(SyncUpdateValues))
       THEN [raised |-> FALSE,
             db |-> [db EXCEPT !.products[p] =
                        [stock_quantity |-> avail,
                         in_stock |-> IF avail <= 0 THEN FALSE ELSE @.in_stock]]]
       ELSE [raised |-> TRUE, db |-> db]

Movement(w, p, type, qty, refType, refId) ==
    [warehouse_id |-> w, product_id |-> p, movement_type |-> type,
     quantity |-> qty, reference_type |-> refType, reference_id |-> refId]

\* outcome of a handler's BEGIN ... block: the response code, which of the
\* handler's messages it carries, the store as the transaction left it, and
\* whether it reached COMMIT
Outcome(code, db, commit) == [code |-> code, error |-> "", db |-> db, commit |-> commit]
\* res.status(code) with a message, after ROLLBACK or before BEGIN
Refused(code, error, db) == [code |-> code, error |-> error, db |-> db, commit |-> FALSE]
\* the catch block: ROLLBACK and 500
Raised(db) == [code |-> 500, error |-> "exception", db |-> db, commit |-> FALSE]
\* the response a handler sent
Response(op, out) == [op |-> op, code |-> out.code, error |-> out.error]

\* what the store holds once the client is released: the transaction's
\* writes after COMMIT, the store as it was after ROLLBACK
\* (SettleAutocommit: every write kept, as if no transaction were open)
SettleAutocommit(before, out) == out.db
Settle(before, out) == IF out.commit THEN out.db ELSE before

----------------------------------------------------------------------------
(* Stock handlers: POST /api/admin/stock/receive | writeoff | reserve *)

\* the body of the receive transaction, from BEGIN to COMMIT
ReceiveTx(db, w, p, qty) ==
    LET d1 == ensureWarehouseStockRow(db, w, p)
        d2 == [d1 EXCEPT !.ws[<<w, p>>].quantity = @ + qty]
        d3 == [d2 EXCEPT !.movements = Append(@, Movement(w, p, "receive", qty, NULL, NULL))]
        s == syncProductAvailabilityFromWarehouse(d3, p)
    IN IF s.raised THEN Raised(s.db)
       ELSE Outcome(201, s.db, TRUE)

WriteoffTx(db, w, p, qty) ==
    LET d1 == ensureWarehouseStockRow(db, w, p)
        row == d1.ws[<<w, p>>]
    IN IF available(row) < qty THEN Refused(400, "insufficient", d1)
       ELSE LET d2 == [d1 EXCEPT !.ws[<<w, p>>].quantity = @ - qty]
                d3 == [d2 EXCEPT !.movements =
                          Append(@, Movement(w, p, "writeoff", qty, NULL, NULL))]
                s == syncProductAvailabilityFromWarehouse(d3, p)
            IN IF s.raised THEN Raised(s.db)
               ELSE Outcome(201, s.db, TRUE)

ReserveTx(db, w, p, qty) ==
    LET d1 == ensureWarehouseStockRow(db, w, p)
        row == d1.ws[<<w, p>>]
    IN IF available(row) < qty THEN Refused(400, "insufficient", d1)
       ELSE LET d2 == [d1 EXCEPT !.ws[<<w, p>>].reserved_quantity = @ + qty]
                d3 == [d2 EXCEPT !.movements =
                          Append(@, Movement(w, p, "reserve", qty, NULL, NULL))]
                s == syncProductAvailabilityFromWarehouse(d3, p)
            IN IF s.raised THEN Raised(s.db)
               ELSE Outcome(201, s.db, TRUE)

\* the store variables take the values of db
StoreBecomes(db) ==
    /\ products' = db.products
    /\ ws' = db.ws
    /\ movements' = db.movements
    /\ tasks' = db.tasks

\* quantity = Math.floor(Number(body.quantity)); quantity <= 0 is answered 400
\* before a client is taken from the pool
StockReceive(w, p, qty) ==
    /\ Len(movements) < MaxMovements
    /\ LET out == IF qty <= 0 THEN Refused(400, "invalid", Store) ELSE ReceiveTx(Store, w, p, qty)
       IN /\ StoreBecomes(Settle(Store, out))
          /\ resp' = Response("receive", out)
    /\ UNCHANGED <<now, puts>>
    /\ UNCHANGED <<dvars, txs>>

StockWriteoff(w, p, qty) ==
    /\ Len(movements) < MaxMovements
    /\ LET out == IF qty <= 0 THEN Refused(400, "invalid", Store) ELSE WriteoffTx(Store, w, p, qty)
       IN /\ StoreBecomes(Settle(Store, out))
          /\ resp' = Response("writeoff", out)
    /\ UNCHANGED <<now, puts>>
    /\ UNCHANGED <<dvars, txs>>

StockReserve(w, p, qty) ==
    /\ Len(movements) < MaxMovements
    /\ LET out == IF qty <= 0 THEN Refused(400, "invalid", Store) ELSE ReserveTx(Store, w, p, qty)
       IN /\ StoreBecomes(Settle(Store, out))
          /\ resp' = Response("reserve", out)
    /\ UNCHANGED <<now, puts>>
    /\ UNCHANGED <<dvars, txs>>

----------------------------------------------------------------------------
(* Pick tasks: POST /api/admin/pick-tasks/from-order *)

TaskStatuses == {"new", "in_progress", "done", "cancelled"}
ActiveTask(t) == t.status \in {"new", "in_progress"}

\* SELECT product_id, product_name, quantity FROM order_items WHERE order_id = $1
orderItemsOf(o) == IF o \in DOMAIN orders THEN orders[o].items ELSE <<>>

\* the loop over the order's items: lock the stock row, reserve, insert the
\* task item and the movement, sync; the first short item ends the request
RECURSIVE reserveItems(_, _, _, _, _)
reserveItems(db, taskId, w, items, i) ==
    IF i > Len(items) THEN Outcome(201, db, TRUE)
    ELSE LET p == items[i].product_id
             requestedQty == items[i].quantity
             d1 == ensureWarehouseStockRow(db, w, p)
             stock == d1.ws[<<w, p>>]
         IN IF available(stock) < requestedQty THEN Refused(400, "insufficient", d1)
            ELSE LET d2 == [d1 EXCEPT !.ws[<<w, p>>].reserved_quantity = @ + requestedQty]
                     d3 == [d2 EXCEPT !.tasks[taskId].items =
                               Append(@, [product_id |-> p,
                                          requested_qty |-> requestedQty,
                                          picked_qty |-> 0])]
                     d4 == [d3 EXCEPT !.movements =
                               Append(@, Movement(w, p, "reserve", requestedQty, "pick_task", taskId))]
                     s == syncProductAvailabilityFromWarehouse(d4, p)
                 IN IF s.raised THEN Raised(s.db)
                    ELSE reserveItems(s.db, taskId, w, items, i + 1)

\* SELECT id FROM pick_tasks WHERE order_id = $1 AND status IN ('new', 'in_progress')
\* (activeTaskOfNone: the same query finding no row)
activeTaskOfNone(db, o) == {}
activeTaskOf(db, o) ==
    {t \in DOMAIN db.tasks : db.tasks[t].order_id = o /\ ActiveTask(db.tasks[t])}

PickTaskCreateTx(db, o, w, assignedTo) ==
    LET activeTask == activeTaskOf(db, o)
        items == orderItemsOf(o)
        taskId == Len(db.tasks) + 1
        d1 == [db EXCEPT !.tasks =
                  Append(@, [order_id |-> o, warehouse_id |-> w, status |-> "new",
                             assigned_to |-> assignedTo, started_at |-> NULL,
                             completed_at |-> NULL, items |-> <<>>])]
    IN IF activeTask # {} THEN Refused(409, "active_task", db)
       ELSE IF Len(items) = 0 THEN Refused(400, "no_items", db)
       ELSE reserveItems(d1, taskId, w, items, 1)

PickTaskFromOrder(o, w, assignedTo) ==
    /\ Len(tasks) < MaxTasks
    /\ Len(movements) < MaxMovements
    /\ LET out == PickTaskCreateTx(Store, o, w, assignedTo)
       IN /\ StoreBecomes(Settle(Store, out))
          /\ resp' = Response("pick_create", out)
    /\ UNCHANGED <<now, puts>>
    /\ UNCHANGED <<dvars, txs>>

----------------------------------------------------------------------------
(* Pick tasks: PATCH /api/admin/pick-tasks/:taskId *)

\* status = 'done': every item's requested quantity leaves quantity and
\* reserved_quantity of the task's warehouse row
RECURSIVE commitItems(_, _, _, _)
commitItems(db, taskId, w, i) ==
    LET items == db.tasks[taskId].items
    IN IF i > Len(items) THEN Outcome(200, db, TRUE)
       ELSE LET p == items[i].product_id
                qty == items[i].requested_qty
                stock == db.ws[<<w, p>>]
            IN IF stock.quantity < qty \/ stock.reserved_quantity < qty
               THEN Refused(400, "insufficient", db)
               ELSE LET d1 == [db EXCEPT !.ws[<<w, p>>] =
                                  [@ EXCEPT !.quantity = @ - qty,
                                            !.reserved_quantity = @ - qty]]
                        d2 == [d1 EXCEPT !.tasks[taskId].items =
                                  [k \in DOMAIN items |->
                                      IF items[k].product_id = p
                                      THEN [items[k] EXCEPT !.picked_qty = items[k].requested_qty]
                                      ELSE items[k]]]
                        d3 == [d2 EXCEPT !.movements =
                                  Append(@, Movement(w, p, "pick", qty, "pick_task", taskId))]
                        s == syncProductAvailabilityFromWarehouse(d3, p)
                    IN IF s.raised THEN Raised(s.db)
                       ELSE commitItems(s.db, taskId, w, i + 1)

\* status = 'cancelled': every item's requested quantity leaves reserved_quantity
RECURSIVE releaseItems(_, _, _, _)
releaseItems(db, taskId, w, i) ==
    LET items == db.tasks[taskId].items
    IN IF i > Len(items) THEN Outcome(200, db, TRUE)
       ELSE LET p == items[i].product_id
                qty == items[i].requested_qty
                stock == db.ws[<<w, p>>]
            IN IF stock.reserved_quantity < qty THEN Refused(400, "insufficient", db)
               ELSE LET d1 == [db EXCEPT !.ws[<<w, p>>].reserved_quantity = @ - qty]
                        d2 == [d1 EXCEPT !.movements =
                                  Append(@, Movement(w, p, "release", qty, "pick_task", taskId))]
                        s == syncProductAvailabilityFromWarehouse(d2, p)
                    IN IF s.raised THEN Raised(s.db)
                       ELSE releaseItems(s.db, taskId, w, i + 1)

\* a final task asked for another status is refused
\* (terminalGuardNone: the handler without this refusal)
terminalGuardNone(currentStatus, status) == FALSE
terminalGuard(currentStatus, status) ==
    currentStatus \in {"done", "cancelled"} /\ currentStatus # status

\* body.assignedTo: absent (the task keeps its assignee) or a value
nextAssignedTo(task, assignedTo) ==
    IF ~assignedTo.given THEN task.assigned_to ELSE assignedTo.value

\* UPDATE pick_tasks SET status, assigned_to, started_at, completed_at
updateTask(task, status, assignee, ts) ==
    [task EXCEPT
        !.status = status,
        !.assigned_to = assignee,
        !.started_at = IF status = "in_progress" /\ @ = NULL THEN ts ELSE @,
        !.completed_at = IF status \in {"done", "cancelled"} THEN ts ELSE @]

PickTaskPatchTx(db, taskId, status, assignedTo, ts) ==
    IF taskId \notin DOMAIN db.tasks THEN Refused(404, "not_found", db)
    ELSE
    LET task == db.tasks[taskId]
        currentStatus == task.status
        w == task.warehouse_id
    IN IF terminalGuard(currentStatus, status) THEN Refused(400, "final", db)
       ELSE IF status = "done" /\ currentStatus \notin {"new", "in_progress", "done"}
       THEN Refused(400, "transition", db)
       ELSE IF status = "cancelled" /\ currentStatus \notin {"new", "in_progress", "cancelled"}
       THEN Refused(400, "transition", db)
       ELSE LET moved ==
                    IF status = "done" /\ currentStatus # "done"
                    THEN commitItems(db, taskId, w, 1)
                    ELSE IF status = "cancelled" /\ currentStatus # "cancelled"
                    THEN releaseItems(db, taskId, w, 1)
                    ELSE Outcome(200, db, TRUE)
            IN IF ~moved.commit THEN moved
               ELSE Outcome(200,
                            [moved.db EXCEPT !.tasks[taskId] =
                                updateTask(moved.db.tasks[taskId], status,
                                           nextAssignedTo(task, assignedTo), ts)],
                            TRUE)

\* NOW() moves on when a committed PATCH stored it in started_at or completed_at
PickTaskPatch(taskId, status, assignedTo) ==
    /\ Len(movements) < MaxMovements
    /\ LET out == PickTaskPatchTx(Store, taskId, status, assignedTo, now)
           after == Settle(Store, out)
           stamped == \E t \in DOMAIN tasks :
                          \/ after.tasks[t].started_at # tasks[t].started_at
                          \/ after.tasks[t].completed_at # tasks[t].completed_at
       IN /\ stamped => now <= MaxClock
          /\ StoreBecomes(after)
          /\ resp' = Response("pick_patch", out)
          /\ now' = IF stamped THEN now + 1 ELSE now
    /\ UNCHANGED puts
    /\ UNCHANGED <<dvars, txs>>

----------------------------------------------------------------------------
(* Product edit: PUT /api/admin/products/:productId.  The handler sends its  *)
(* statements through the pool, one commit each, so requests interleave      *)
(* between them.                                                             *)

Idle == [pc |-> "idle", productId |-> 0, nextStockQuantity |-> 0,
         nextInStock |-> FALSE, hasStockQuantity |-> FALSE]

\* body.stockQuantity and body.inStock: absent, or a value
PutBodies ==
    [hasStockQuantity : BOOLEAN, stockQuantity : 0..MaxQty,
     hasInStock : {FALSE}, inStock : {FALSE}]

\* SELECT * FROM products WHERE id = $1, then the values of the UPDATE
ProductPutBegin(s, p, body) ==
    /\ puts[s].pc = "idle"
    /\ \A s2 \in DOMAIN puts : s2 < s => puts[s2].pc # "idle"
    /\ ~body.hasStockQuantity => body.stockQuantity = 0
    /\ ~body.hasInStock => body.inStock = FALSE
    /\ LET existingRow == products[p]
           nextStockQuantity ==
               IF body.hasStockQuantity THEN body.stockQuantity
               ELSE existingRow.stock_quantity
       IN puts' = [puts EXCEPT ![s] =
              [pc |-> "update_product", productId |-> p,
               nextStockQuantity |-> nextStockQuantity,
               nextInStock |-> nextStockQuantity > 0 /\
                   (IF body.hasInStock THEN body.inStock ELSE existingRow.in_stock),
               hasStockQuantity |-> body.hasStockQuantity]]
    /\ UNCHANGED <<products, ws, movements, tasks, now, resp>>
    /\ UNCHANGED <<dvars, txs>>

\* UPDATE products SET ..., in_stock = $6, stock_quantity = $7 WHERE id = $8
ProductPutUpdate(s) ==
    /\ puts[s].pc = "update_product"
    /\ products' = [products EXCEPT ![puts[s].productId] =
                       [stock_quantity |-> puts[s].nextStockQuantity,
                        in_stock |-> puts[s].nextInStock]]
    /\ puts' = IF puts[s].hasStockQuantity
               THEN [puts EXCEPT ![s].pc = "update_stock"]
               ELSE [puts EXCEPT ![s] = Idle]
    /\ UNCHANGED <<ws, movements, tasks, now, resp>>
    /\ UNCHANGED <<dvars, txs>>

\* ensureWarehouseStockRow, UPDATE warehouse_stock SET quantity = $1 +
\* reserved_quantity on the MAIN row, then sync; a sync that raises rejects
\* the handler's promise with the rows above already committed
\* (putStockWriteNoReserve: quantity = $1, the reservation not added)
putStockWriteNoReserve(db, p, n) ==
    LET d1 == ensureWarehouseStockRow(db, MainWarehouse, p)
    IN [d1 EXCEPT !.ws[<<MainWarehouse, p>>].quantity = n]
putStockWrite(db, p, n) ==
    LET d1 == ensureWarehouseStockRow(db, MainWarehouse, p)
    IN [d1 EXCEPT !.ws[<<MainWarehouse, p>>].quantity =
                      n + d1.ws[<<MainWarehouse, p>>].reserved_quantity]

ProductPutStock(s) ==
    /\ puts[s].pc = "update_stock"
    /\ LET d == putStockWrite(Store, puts[s].productId, puts[s].nextStockQuantity)
           sy == syncProductAvailabilityFromWarehouse(d, puts[s].productId)
       IN StoreBecomes(sy.db)
    /\ puts' = [puts EXCEPT ![s] = Idle]
    /\ UNCHANGED <<now, resp>>
    /\ UNCHANGED <<dvars, txs>>

----------------------------------------------------------------------------
(* The ledger transactions statement by statement.  SELECT ... FOR UPDATE    *)
(* takes the lock of a row and the transaction keeps it until COMMIT or      *)
(* ROLLBACK; a statement that needs a row another transaction holds waits.   *)
(* Writes stay with the transaction (pending) until COMMIT.                  *)

NoTx ==
    [kind |-> "none", pc |-> "idle", order |-> NULL, task |-> NULL, status |-> "",
     w |-> NULL, items |-> << >>, i |-> 0, held |-> {}, heldTasks |-> {},
     pending |-> << >>]

\* the requests that open a ledger transaction
TxRequests ==
    [kind : {"pick_create"}, order : DOMAIN orders, task : {NULL}, status : {""},
     w : Warehouses, p : {NULL}, qty : {0}]
    \cup [kind : {"pick_patch"}, order : {NULL}, task : 1..(Len(tasks) + 1),
          status : TaskStatuses, w : {NULL}, p : {NULL}, qty : {0}]
    \cup [kind : {"reserve", "writeoff"}, order : {NULL}, task : {NULL}, status : {""},
          w : Warehouses, p : Products, qty : 1..MaxQty]

\* the movement_type the loop of the transaction writes for each item
movementTypeOf(tx) ==
    IF tx.kind = "pick_create" THEN "reserve"
    ELSE IF tx.kind = "pick_patch" THEN (IF tx.status = "done" THEN "pick" ELSE "release")
    ELSE tx.kind

\* the row a transaction's UPDATE warehouse_stock statements leave of cell
RECURSIVE applyWrites(_, _, _)
applyWrites(row, cell, pending) ==
    IF pending = << >> THEN row
    ELSE LET h == Head(pending)
         IN applyWrites(IF h.cell = cell
                        THEN [present |-> TRUE,
                              quantity |-> row.quantity + h.dq,
                              reserved_quantity |-> row.reserved_quantity + h.dr]
                        ELSE row,
                        cell, Tail(pending))

\* the products rows the transaction's sync statements leave
RECURSIVE applySyncs(_, _)
applySyncs(ps, pending) ==
    IF pending = << >> THEN ps
    ELSE LET h == Head(pending)
         IN applySyncs(IF h.synced THEN [ps EXCEPT ![h.cell[2]] = h.prow] ELSE ps,
                       Tail(pending))

\* the database as a statement of the transaction sees it
View(tx) ==
    [products |-> applySyncs(products, tx.pending),
     ws |-> [c \in Cells |-> applyWrites(ws[c], c, tx.pending)],
     movements |-> movements,
     tasks |-> tasks]

\* the check each handler makes of the row it has locked
shortOf(type, row, qty) ==
    IF type = "pick" THEN row.quantity < qty \/ row.reserved_quantity < qty
    ELSE IF type = "release" THEN row.reserved_quantity < qty
    ELSE available(row) < qty

\* the UPDATE warehouse_stock of each handler, with its movement
writeOf(type, cell, qty) ==
    [cell |-> cell, type |-> type, qty |-> qty,
     dq |-> IF type \in {"pick", "writeoff"} THEN 0 - qty ELSE 0,
     dr |-> IF type = "reserve" THEN qty
            ELSE IF type \in {"pick", "release"} THEN 0 - qty ELSE 0,
     synced |-> FALSE,
     prow |-> [stock_quantity |-> 0, in_stock |-> FALSE]]

\* ROLLBACK (or no BEGIN yet) and the response
TxRollback(t, code, error) ==
    /\ txs' = [txs EXCEPT ![t] = NoTx]
    /\ resp' = [op |-> txs[t].kind, code |-> code, error |-> error]
    /\ UNCHANGED <<products, ws, movements, tasks, now>>

TxGoes(t, tx) ==
    /\ txs' = [txs EXCEPT ![t] = tx]
    /\ resp' = [op |-> "none", code |-> 0, error |-> ""]
    /\ UNCHANGED <<products, ws, movements, tasks, now>>

\* BEGIN and the statements up to the first row lock: for from-order the
\* SELECT of an active task, the SELECT of the order's items and the INSERT
\* INTO pick_tasks
TxBegin(t, req) ==
    /\ txs[t].pc = "idle"
    /\ \A t2 \in TxSlots : t2 < t => txs[t2].pc # "idle"
    /\ Len(movements) < MaxMovements
    /\ req.kind = "pick_create" => Len(tasks) < MaxTasks
    /\ LET tx == [NoTx EXCEPT !.kind = req.kind, !.order = req.order, !.task = req.task,
                               !.status = req.status, !.w = req.w]
       IN IF req.kind = "pick_create"
          THEN IF activeTaskOf(Store, req.order) # {}
               THEN /\ txs' = txs
                    /\ resp' = [op |-> req.kind, code |-> 409, error |-> "active_task"]
                    /\ UNCHANGED <<products, ws, movements, tasks, now>>
               ELSE IF Len(orderItemsOf(req.order)) = 0
               THEN /\ txs' = txs
                    /\ resp' = [op |-> req.kind, code |-> 400, error |-> "no_items"]
                    /\ UNCHANGED <<products, ws, movements, tasks, now>>
               ELSE TxGoes(t, [tx EXCEPT !.pc = "lock_row", !.i = 1,
                                         !.items = orderItemsOf(req.order)])
          ELSE IF req.kind = "pick_patch"
          THEN TxGoes(t, [tx EXCEPT !.pc = "lock_task"])
          ELSE TxGoes(t, [tx EXCEPT !.pc = "lock_row", !.i = 1,
                                    !.items = <<[product_id |-> req.p, quantity |-> req.qty]>>])
    /\ UNCHANGED puts
    /\ UNCHANGED dvars

\* SELECT ... FROM pick_tasks WHERE id = $1 FOR UPDATE, the refusals that
\* read the row, and SELECT ... FROM pick_task_items ... FOR UPDATE
TxLockTask(t) ==
    /\ txs[t].pc = "lock_task"
    /\ \A u \in TxSlots : u # t => txs[t].task \notin txs[u].heldTasks
    /\ LET tx == txs[t]
           status == tx.status
       IN IF tx.task \notin DOMAIN tasks THEN TxRollback(t, 404, "not_found")
          ELSE LET task == tasks[tx.task]
                   currentStatus == task.status
                   moves == \/ status = "done" /\ currentStatus # "done"
                            \/ status = "cancelled" /\ currentStatus # "cancelled"
               IN IF terminalGuard(currentStatus, status) THEN TxRollback(t, 400, "final")
                  ELSE IF status = "done" /\ currentStatus \notin {"new", "in_progress", "done"}
                  THEN TxRollback(t, 400, "transition")
                  ELSE IF status = "cancelled"
                          /\ currentStatus \notin {"new", "in_progress", "cancelled"}
                  THEN TxRollback(t, 400, "transition")
                  ELSE TxGoes(t, [tx EXCEPT
                          !.heldTasks = {tx.task},
                          !.w = task.warehouse_id,
                          !.items = IF moves
                                    THEN [k \in DOMAIN task.items |->
                                            [product_id |-> task.items[k].product_id,
                                             quantity |-> task.items[k].requested_qty]]
                                    ELSE << >>,
                          !.i = 1,
                          !.pc = IF moves /\ Len(task.items) > 0 THEN "lock_row" ELSE "commit"])
    /\ UNCHANGED puts
    /\ UNCHANGED dvars

\* the row the transaction's next statement locks
nextRowOf(tx) == <<tx.w, tx.items[tx.i].product_id>>

\* ensureWarehouseStockRow (not in PATCH) and SELECT ... FROM warehouse_stock
\* ... FOR UPDATE of the item's row, then the handler's check of the row
TxLockRow(t) ==
    /\ txs[t].pc = "lock_row"
    /\ \A u \in TxSlots : u # t => nextRowOf(txs[t]) \notin txs[u].held
    /\ LET tx == txs[t]
           cell == nextRowOf(tx)
           row == View(tx).ws[cell]
       IN IF shortOf(movementTypeOf(tx), row, tx.items[tx.i].quantity)
          THEN TxRollback(t, 400, "insufficient")
          ELSE TxGoes(t, [tx EXCEPT !.held = @ \cup {cell}, !.pc = "write_row"])
    /\ UNCHANGED puts
    /\ UNCHANGED dvars

\* UPDATE warehouse_stock and the INSERTs of the item
TxWriteRow(t) ==
    /\ txs[t].pc = "write_row"
    /\ LET tx == txs[t]
       IN TxGoes(t, [tx EXCEPT
              !.pending = Append(@, writeOf(movementTypeOf(tx), nextRowOf(tx),
                                            tx.items[tx.i].quantity)),
              !.pc = "sync"])
    /\ UNCHANGED puts
    /\ UNCHANGED dvars

\* syncProductAvailabilityFromWarehouse of the item's product; a statement
\* the server rejects ends the transaction in the catch block
TxSync(t) ==
    /\ txs[t].pc = "sync"
    /\ LET tx == txs[t]
           p == tx.items[tx.i].product_id
           s == syncProductAvailabilityFromWarehouse(View(tx), p)
       IN IF s.raised THEN TxRollback(t, 500, "exception")
          ELSE TxGoes(t, [tx EXCEPT
                  !.pending[Len(tx.pending)] =
                      [@ EXCEPT !.synced = TRUE, !.prow = s.db.products[p]],
                  !.i = @ + 1,
                  !.pc = IF tx.i < Len(tx.items) THEN "lock_row" ELSE "commit"])
    /\ UNCHANGED puts
    /\ UNCHANGED dvars

\* the pick_tasks row and items a committing transaction leaves
tasksAfter(tx, ts) ==
    IF tx.kind = "pick_create"
    THEN Append(tasks,
                [order_id |-> tx.order, warehouse_id |-> tx.w, status |-> "new",
                 assigned_to |-> NULL, started_at |-> NULL, completed_at |-> NULL,
                 items |-> [k \in DOMAIN tx.items |->
                              [product_id |-> tx.items[k].product_id,
                               requested_qty |-> tx.items[k].quantity,
                               picked_qty |-> 0]]])
    ELSE IF tx.kind = "pick_patch"
    THEN LET task == tasks[tx.task]
             picked == IF movementTypeOf(tx) = "pick" /\ tx.pending # << >>
                       THEN [task EXCEPT !.items =
                                [k \in DOMAIN task.items |->
                                    [task.items[k] EXCEPT !.picked_qty = task.items[k].requested_qty]]]
                       ELSE task
         IN [tasks EXCEPT ![tx.task] = updateTask(picked, tx.status, task.assigned_to, ts)]
    ELSE tasks

\* (PATCH: UPDATE pick_tasks, then) COMMIT: the writes become visible and
\* the locks are released
TxCommit(t) ==
    /\ txs[t].pc = "commit"
    /\ LET tx == txs[t]
           after == tasksAfter(tx, now)
           taskId == IF tx.kind = "pick_create" THEN Len(after) ELSE tx.task
           stamped == \E k \in DOMAIN tasks :
                          \/ after[k].started_at # tasks[k].started_at
                          \/ after[k].completed_at # tasks[k].completed_at
       IN /\ stamped => now <= MaxClock
          /\ ws' = View(tx).ws
          /\ products' = View(tx).products
          /\ movements' = movements \o
                 [k \in DOMAIN tx.pending |->
                     Movement(tx.pending[k].cell[1], tx.pending[k].cell[2],
                              tx.pending[k].type, tx.pending[k].qty,
                              IF tx.kind \in {"pick_create", "pick_patch"}
                              THEN "pick_task" ELSE NULL,
                              taskId)]
          /\ tasks' = after
          /\ now' = IF stamped THEN now + 1 ELSE now
          /\ resp' = [op |-> tx.kind,
                      code |-> IF tx.kind = "pick_patch" THEN 200 ELSE 201,
                      error |-> ""]
    /\ txs' = [txs EXCEPT ![t] = NoTx]
    /\ UNCHANGED puts
    /\ UNCHANGED dvars

----------------------------------------------------------------------------
(* The store the warehouse handlers start from *)

StaffUser == 9

\* orders earlier POST /api/orders requests left, with their order_items
StoreOrders ==
    << [user_id |-> 1, status |-> "pending", assigned_courier_id |-> NULL,
        items |-> << [product_id |-> 1, quantity |-> 1],
                     [product_id |-> 2, quantity |-> 1] >>],
       [user_id |-> 1, status |-> "pending", assigned_courier_id |-> NULL,
        items |-> << [product_id |-> 2, quantity |-> 1] >>] >>

\* a pick task of order o at the MAIN warehouse as the handlers write it:
\* one item per order item, picked in full once done, stamped before start-up
StoredTask(o, status) ==
    [order_id |-> o, warehouse_id |-> MainWarehouse, status |-> status,
     assigned_to |-> NULL,
     started_at |-> IF status \in {"in_progress", "done"} THEN 1 ELSE NULL,
     completed_at |-> IF status \in {"done", "cancelled"} THEN 1 ELSE NULL,
     items |-> [k \in DOMAIN StoreOrders[o].items |->
                  [product_id |-> StoreOrders[o].items[k].product_id,
                   requested_qty |-> StoreOrders[o].items[k].quantity,
                   picked_qty |-> IF status = "done"
                                  THEN StoreOrders[o].items[k].quantity ELSE 0]]]

\* no pick task yet, or one of the first order: open, picked or cancelled
StartTasks ==
    {<< >>} \cup {<<StoredTask(1, st)>> : st \in {"new", "done", "cancelled"}}

\* what the active tasks of ts hold reserved of product p at warehouse w
ReservedByTasks(ts, w, p) ==
    LET held == {<<t, k>> \in (DOMAIN ts) \X (1..Cardinality(Products)) :
                    /\ k \in DOMAIN ts[t].items
                    /\ ActiveTask(ts[t])
                    /\ ts[t].warehouse_id = w
                    /\ ts[t].items[k].product_id = p}
    IN SumOver(held, [h \in (DOMAIN ts) \X (1..Cardinality(Products)) |->
                         IF h \in held THEN ts[h[1]].items[h[2]].requested_qty ELSE 0])

\* Σ max(quantity - reserved_quantity, 0) over the rows of product p
LedgerAvailable(w_s, p) ==
    SumOver({c \in Cells : c[2] = p /\ w_s[c].present},
            [c \in Cells |-> available(w_s[c])])

\* the warehouse tables with the pick tasks ts and free units of every product
\* unreserved at the MAIN warehouse, and slots product edits that may overlap
InitLedger(ts, free, slots) ==
    /\ tasks = ts
    /\ ws = [c \in Cells |->
                IF c[1] = MainWarehouse
                THEN [present |-> TRUE,
                      quantity |-> ReservedByTasks(tasks, c[1], c[2]) + free,
                      reserved_quantity |-> ReservedByTasks(tasks, c[1], c[2])]
                ELSE NoRow]
    /\ products = [p \in Products |->
                      [stock_quantity |-> LedgerAvailable(ws, p),
                       in_stock |-> LedgerAvailable(ws, p) > 0]]
    /\ movements = << >>
    /\ now = 2
    /\ puts = [s \in slots |-> Idle]
    /\ txs = [t \in TxSlots |-> NoTx]
    /\ resp = [op |-> "none", code |-> 0, error |-> ""]

\* the warehouse handlers read orders and order_items only
InitStore(ts, slots) ==
    /\ InitLedger(ts, 0, slots)
    /\ orders = StoreOrders
    /\ events = << >>
    /\ couriers = << >>
    /\ carts = << >>
    /\ procs = << >>

InitWarehouse == \E ts \in StartTasks : InitStore(ts, {1})

\* one order being picked, and product edits that overlap
InitEdits == InitStore(<<StoredTask(1, "new")>>, PutSlots)

AssigneeArgs ==
    {[given |-> FALSE, value |-> NULL], [given |-> TRUE, value |-> StaffUser]}

\* stock requests and product edits
NextEdits ==
    \/ \E w \in Warehouses, p \in Products, qty \in 0..(MaxQty + 1) : StockReceive(w, p, qty)
    \/ \E w \in Warehouses, p \in Products, qty \in 0..(MaxQty + 1) : StockWriteoff(w, p, qty)
    \/ \E w \in Warehouses, p \in Products, qty \in 0..(MaxQty + 1) : StockReserve(w, p, qty)
    \/ \E s \in DOMAIN puts, p \in Products, body \in PutBodies : ProductPutBegin(s, p, body)
    \/ \E s \in DOMAIN puts : ProductPutUpdate(s)
    \/ \E s \in DOMAIN puts : ProductPutStock(s)

NextWarehouse ==
    \/ \E w \in Warehouses, p \in Products, qty \in 0..(MaxQty + 1) : StockReceive(w, p, qty)
    \/ \E w \in Warehouses, p \in Products, qty \in 0..(MaxQty + 1) : StockWriteoff(w, p, qty)
    \/ \E w \in Warehouses, p \in Products, qty \in 0..(MaxQty + 1) : StockReserve(w, p, qty)
    \/ \E o \in 1..(Len(orders) + 1), w \in Warehouses, a \in {NULL, StaffUser} :
          PickTaskFromOrder(o, w, a)
    \/ \E t \in 1..(Len(tasks) + 1), st \in TaskStatuses, a \in AssigneeArgs :
          PickTaskPatch(t, st, a)
    \/ \E s \in DOMAIN puts, p \in Products, body \in PutBodies : ProductPutBegin(s, p, body)
    \/ \E s \in DOMAIN puts : ProductPutUpdate(s)
    \/ \E s \in DOMAIN puts : ProductPutStock(s)

SpecWarehouse == InitWarehouse /\ [][NextWarehouse]_vars

SpecEdits == InitEdits /\ [][NextEdits]_vars

\* two orders whose items name the same two products in opposite order
CrossOrders ==
    << [user_id |-> 1, status |-> "pending", assigned_courier_id |-> NULL,
        items |-> << [product_id |-> 1, quantity |-> 1],
                     [product_id |-> 2, quantity |-> 1] >>],
       [user_id |-> 1, status |-> "pending", assigned_courier_id |-> NULL,
        items |-> << [product_id |-> 2, quantity |-> 1],
                     [product_id |-> 1, quantity |-> 1] >>] >>

\* the open pick task of order o of CrossOrders at the MAIN warehouse
CrossTask(o) ==
    [order_id |-> o, warehouse_id |-> MainWarehouse, status |-> "new",
     assigned_to |-> NULL, started_at |-> NULL, completed_at |-> NULL,
     items |-> [k \in DOMAIN CrossOrders[o].items |->
                  [product_id |-> CrossOrders[o].items[k].product_id,
                   requested_qty |-> CrossOrders[o].items[k].quantity,
                   picked_qty |-> 0]]]

\* the two orders with no pick task yet or with an open task each, one unit
\* of every product free at the MAIN warehouse
InitLocks ==
    /\ \E ts \in {<< >>, <<CrossTask(1), CrossTask(2)>>} : InitLedger(ts, 1, {1})
    /\ orders = CrossOrders
    /\ events = << >>
    /\ couriers = << >>
    /\ carts = << >>
    /\ procs = << >>

NextLocks ==
    \/ \E t \in TxSlots, req \in TxRequests : TxBegin(t, req)
    \/ \E t \in TxSlots : TxLockTask(t)
    \/ \E t \in TxSlots : TxLockRow(t)
    \/ \E t \in TxSlots : TxWriteRow(t)
    \/ \E t \in TxSlots : TxSync(t)
    \/ \E t \in TxSlots : TxCommit(t)

SpecLocks == InitLocks /\ [][NextLocks]_vars

----------------------------------------------------------------------------
(* Properties of the warehouse ledger, the product aggregate and pick tasks *)

StoreUnchanged == UNCHANGED <<products, ws, movements, tasks>>
StockArgs == 1..(MaxQty + 1)

\* C3: every warehouse_stock row keeps 0 <= reserved_quantity <= quantity in
\* every reachable state, whatever receive, writeoff, reserve, pick-task
\* creation, cancel and done requests (and product edits) have run.
C3_LedgerConservation ==
    \A c \in Cells :
        ws[c].present =>
            /\ 0 <= ws[c].reserved_quantity
            /\ ws[c].reserved_quantity <= ws[c].quantity

\* a row holds a reservation below its quantity and a stock request was answered
C3_Witness ==
    /\ resp.op \in {"receive", "writeoff", "reserve"}
    /\ \E c \in Cells : 0 < ws[c].reserved_quantity /\ ws[c].reserved_quantity < ws[c].quantity

\* C4 (as the specification states it): right after a step that changed a
\* warehouse_stock row, every product's stock_quantity equals the sum over its
\* rows of max(quantity - reserved_quantity, 0).
C4_MirrorAfterLedgerWrite ==
    [][ws' # ws =>
          \A p \in Products : products'[p].stock_quantity = LedgerAvailable(ws', p)]_vars

\* C5: a reserve or writeoff request for more than the row's available stock,
\* max(quantity - reserved_quantity, 0), is answered 400 "insufficient" and
\* leaves warehouse_stock, products and stock_movements as they were.
C5_InsufficientStockRefused ==
    [][\A w \in Warehouses, p \in Products, qty \in StockArgs :
          (/\ resp'.op \in {"reserve", "writeoff"}
           /\ qty > Max(ws[<<w, p>>].quantity - ws[<<w, p>>].reserved_quantity, 0)
           /\ StockReserve(w, p, qty) \/ StockWriteoff(w, p, qty))
          => /\ resp'.code = 400
             /\ resp'.error = "insufficient"
             /\ StoreUnchanged]_vars

\* a writeoff within quantity but above the unreserved part was refused
C5_Witness ==
    /\ resp.op = "writeoff"
    /\ resp.error = "insufficient"
    /\ \E p \in Products : ws[<<MainWarehouse, p>>].reserved_quantity > 0

\* C6 (as the specification states it): a receive request for a positive
\* quantity succeeds, that is, is answered 201.
C6_ReceiveSucceeds ==
    resp.op = "receive" => resp.error = "invalid" \/ resp.code = 201

\* C7: a pick-task creation for an order with an item that cannot be reserved
\* in full leaves pick_tasks, pick_task_items, stock_movements, products and
\* every warehouse_stock row as they were before the request.
C7_CreationAllOrNothing ==
    [][\A o \in DOMAIN orders, w \in Warehouses, a \in {NULL, StaffUser} :
          (/\ resp'.op = "pick_create"
           /\ \E k \in DOMAIN orders[o].items :
                 LET c == <<w, orders[o].items[k].product_id>>
                 IN Max(ws[c].quantity - ws[c].reserved_quantity, 0)
                        < orders[o].items[k].quantity
           /\ PickTaskFromOrder(o, w, a))
          => StoreUnchanged]_vars

\* a creation was refused or failed while the first product of an order was
\* in stock at the MAIN warehouse and another was not
C7_Witness ==
    /\ resp.op = "pick_create"
    /\ resp.code \in {400, 500}
    /\ resp.error \in {"insufficient", "exception"}
    /\ activeTaskOf(Store, 1) = {}
    /\ ws[<<MainWarehouse, 1>>].quantity > ws[<<MainWarehouse, 1>>].reserved_quantity
    /\ ws[<<MainWarehouse, 2>>].quantity = ws[<<MainWarehouse, 2>>].reserved_quantity

AtMostOneActiveTask ==
    \A o \in DOMAIN orders :
        Cardinality({t \in DOMAIN tasks : tasks[t].order_id = o /\ ActiveTask(tasks[t])}) <= 1

C9_TerminalTaskImmutable ==
    [][\A t \in DOMAIN tasks, st \in TaskStatuses, a \in AssigneeArgs :
          (/\ resp'.op = "pick_patch"
           /\ tasks[t].status \in {"done", "cancelled"}
           /\ st # tasks[t].status
           /\ PickTaskPatch(t, st, a))
          => /\ resp'.code = 400
             /\ StoreUnchanged]_vars

\* a PATCH of a final task to another status was refused
C9_Witness ==
    /\ resp.op = "pick_patch"
    /\ resp.error = "final"
    /\ \E t \in DOMAIN tasks : tasks[t].status \in {"done", "cancelled"}

\* what the items of a task request of product p
RequestedOf(task, p) ==
    SumOver({k \in DOMAIN task.items : task.items[k].product_id = p},
            [k \in DOMAIN task.items |-> task.items[k].requested_qty])

TaskStage(status) ==
    CASE status = "new" -> 0
      [] status = "in_progress" -> 1
      [] OTHER -> 2

C28_ReservationsCovered ==
    /\ \A c \in Cells :
          /\ ReservedByTasks(tasks, c[1], c[2]) <= ws[c].reserved_quantity
          /\ ws[c].reserved_quantity <= ws[c].quantity
    /\ ~(resp.op = "pick_patch" /\ resp.error = "insufficient")

\* a product edit has committed a stock figure of one unit over the
\* reservation of an open task, whose completion has then been asked for
C28_Witness ==
    /\ \E t \in DOMAIN tasks : ActiveTask(tasks[t]) /\ tasks[t].warehouse_id = MainWarehouse
    /\ ReservedByTasks(tasks, MainWarehouse, 1) = 1
    /\ ws[<<MainWarehouse, 1>>].reserved_quantity = 1
    /\ ws[<<MainWarehouse, 1>>].quantity = 2
    /\ resp.op = "pick_patch"

\* C20 (as the specification states it): a step that changes the quantity
\* or the reserved quantity of a warehouse_stock row appends one
\* stock_movements row for that warehouse and product, with a positive
\* quantity equal to the change.
C20_MovementPerLedgerWrite ==
    [][\A cell \in Cells :
          (\/ ws'[cell].quantity # ws[cell].quantity
           \/ ws'[cell].reserved_quantity # ws[cell].reserved_quantity)
          => /\ Len(movements') = Len(movements) + 1
             /\ LET m == movements'[Len(movements')]
                     dq == ws'[cell].quantity - ws[cell].quantity
                     dr == ws'[cell].reserved_quantity - ws[cell].reserved_quantity
                IN /\ m.warehouse_id = cell[1]
                   /\ m.product_id = cell[2]
                   /\ m.quantity > 0
                   /\ m.quantity \in {dq, -dq, dr, -dr}]_vars

----------------------------------------------------------------------------
(* Orders, couriers and order events.  Every handler on this side sends its *)
(* statements through the pool, so each statement commits on its own and    *)
(* requests interleave between statements; only the inserts of POST         *)
(* /api/orders run between BEGIN and COMMIT.                                *)

NumCouriers == 2
MaxOrders == 1
MaxEvents == 2
NumProcs == 2

Couriers == 1..NumCouriers
ProcSlots == 1..NumProcs

\* users: one customer, one user per courier row, and the administrator
Customers == {1}
CourierUser(c) == 1 + c
CourierOfUser(u) == u - 1
CourierUsers == {CourierUser(c) : c \in Couriers}
Users == Customers \cup CourierUsers \cup {StaffUser}
roleOf(u) ==
    IF u = StaffUser THEN "admin" ELSE IF u \in CourierUsers THEN "courier" ELSE "customer"

\* max_active_orders of every couriers row the server inserts
DefaultMaxActiveOrders == 5

OrderStatuses == {"pending", "assigned", "picked_up", "on_the_way", "delivered", "cancelled"}

\* the order_events rows of an order, which the model lets grow to MaxEvents
EventsOf(o) == Cardinality({k \in DOMAIN events : events[k].order_id = o})
MayLog(o) == EventsOf(o) < MaxEvents

\* (EventOfPending: every row inserted with status 'pending')
EventOfPending(o, status, comment, createdBy) ==
    [order_id |-> o, status |-> "pending", comment |-> comment, created_by |-> createdBy]

\* an order_events row; comment tells the statement that wrote it
Event(o, status, comment, createdBy) ==
    [order_id |-> o, status |-> status, comment |-> comment, created_by |-> createdBy]

\* verification_status = 'approved' and the three transport fields filled in
\* (evidence: transport_license, vehicle_registration_number and
\* tech_passport_image_url, which the server only ever writes together)
courierEligible(courier) ==
    /\ courier.verification_status = "approved"
    /\ courier.evidence

\* COUNT(*) of the courier's orders in status assigned, picked_up, on_the_way
getActiveOrderCountForCourier(os, c) ==
    Cardinality({o \in DOMAIN os :
                    /\ os[o].assigned_courier_id = c
                    /\ os[o].status \in {"assigned", "picked_up", "on_the_way"}})

\* the rows of a SELECT over the ids in S, in id order
RECURSIVE RowsOf(_)
RowsOf(S) ==
    IF S = {} THEN << >>
    ELSE LET m == CHOOSE x \in S : \A y \in S : x <= y
         IN <<m>> \o RowsOf(S \ {m})

NoSelection == [id |-> NULL, active |-> 0]

IdleProc ==
    [kind |-> "idle", pc |-> "idle", user |-> 0, order |-> 0, status |-> "",
     courier |-> 0, selected |-> NoSelection, items |-> << >>]

\* resp holds what the latest step answered, if it answered
NoResponse == [op |-> "none", code |-> 0, error |-> ""]
Silent == resp' = NoResponse

\* a request may start in a free slot; slots fill in order
CanStart(s) ==
    /\ procs[s].pc = "idle"
    /\ \A s2 \in ProcSlots : s2 < s => procs[s2].pc # "idle"

\* the handler of slot s sends its response
Finish(s, code, error) ==
    /\ procs' = [procs EXCEPT ![s] = IdleProc]
    /\ resp' = [op |-> procs[s].kind, code |-> code, error |-> error]

\* a request is answered without another statement to follow
Refuse(op, code, error) ==
    /\ resp' = [op |-> op, code |-> code, error |-> error]
    /\ UNCHANGED procs

\* the status a handler answers with once its dispatch attempt is over
FinalCode(kind) == IF kind = "create" THEN 201 ELSE 200

----------------------------------------------------------------------------
(* POST /api/cart/items and POST /api/orders *)

\* SELECT id FROM products WHERE id = $1 AND in_stock = TRUE, then the upsert
CartAdd(u, p, qty) ==
    /\ carts[u][p] + qty <= MaxQty
    /\ Len(orders) < MaxOrders
    /\ IF products[p].in_stock
       THEN /\ carts' = [carts EXCEPT ![u][p] = @ + qty]
            /\ resp' = [op |-> "cart_add", code |-> 201, error |-> ""]
       ELSE /\ resp' = [op |-> "cart_add", code |-> 404, error |-> "not_found"]
            /\ UNCHANGED carts
    /\ UNCHANGED <<orders, events, couriers, procs>>
    /\ UNCHANGED wvars

\* SELECT ... FROM cart_items ci JOIN products p ... WHERE ci.user_id = $1
cartRowsOf(u) ==
    LET ids == RowsOf({p \in Products : carts[u][p] > 0})
    IN [k \in DOMAIN ids |-> [product_id |-> ids[k], quantity |-> carts[u][ids[k]]]]

\* A delivery address as the handler reads it: the pieces between its commas.
\* A piece of text has a length, the length of its longest run of letters
\* and may hold one of the street words; a house piece is the word 'дом'
\* followed by a token of allowed characters.
Text(len, letters, keyword) ==
    [kind |-> "text", len |-> len, letters |-> letters, keyword |-> keyword]
House(len) == [kind |-> "house", len |-> len, letters |-> 0, keyword |-> FALSE]

NoAddress == << >>
Unparsed == [matched |-> FALSE, locality |-> << >>, street |-> << >>]

\* /^(.+?),\s*(.+?),\s*дом\s+([0-9A-Za-zА-Яа-я\-\/]{1,12})$/u: the first
\* piece is the locality, the last the house, what lies between the street
parseDeliveryAddress(address) ==
    IF /\ Len(address) >= 3
       /\ address[Len(address)].kind = "house"
       /\ address[Len(address)].len \in 1..12
       /\ address[1].len >= 1
       /\ \E k \in 2..(Len(address) - 1) : address[k].len >= 1
    THEN [matched |-> TRUE, locality |-> <<address[1]>>,
          street |-> SubSeq(address, 2, Len(address) - 1)]
    ELSE Unparsed

\* the characters of a run of pieces, the commas between them counted
RECURSIVE lengthOf(_)
lengthOf(pieces) ==
    IF pieces = << >> THEN 0
    ELSE pieces[1].len + (IF Len(pieces) > 1 THEN 2 ELSE 0) + lengthOf(Tail(pieces))

\* fewer than 3 characters: no; a street word: yes; otherwise a run of three
\* letters or more
hasStreetName(street) ==
    /\ lengthOf(street) >= 3
    /\ \/ \E k \in DOMAIN street : street[k].keyword
       \/ \E k \in DOMAIN street : street[k].letters >= 3

\* the address checks of the handler, in their order; "" when all pass
addressRefusal(address) ==
    IF address = NoAddress THEN "address_required"
    ELSE LET parsedAddress == parseDeliveryAddress(address)
         IN IF ~parsedAddress.matched THEN "address_format"
            ELSE IF lengthOf(parsedAddress.locality) < 2 THEN "locality"
            ELSE IF ~hasStreetName(parsedAddress.street) THEN "street"
            ELSE ""

\* (coordinatesRefusalNone: the handler without its coordinate checks)
coordinatesRefusalNone(body) == ""
\* deliveryLat and deliveryLng come as a pair, within -90..90 and -180..180
coordinatesRefusal(body) ==
    IF body.hasLat # body.hasLng THEN "coordinates_pair"
    ELSE IF \/ body.hasLat /\ (body.deliveryLat < -90 \/ body.deliveryLat > 90)
            \/ body.hasLng /\ (body.deliveryLng < -180 \/ body.deliveryLng > 180)
    THEN "coordinates_range"
    ELSE ""

\* the first check of the handler the request fails, "" when it passes all
createRefusal(cartRows, body) ==
    IF Len(cartRows) = 0 THEN "empty_cart"
    ELSE IF addressRefusal(body.deliveryAddress) # ""
    THEN addressRefusal(body.deliveryAddress)
    ELSE coordinatesRefusal(body)

\* the cart is read, and the request validated, before BEGIN
OrderCreateBegin(s, u, body) ==
    /\ CanStart(s)
    /\ Len(orders) < MaxOrders
    /\ LET cartRows == cartRowsOf(u)
       IN IF createRefusal(cartRows, body) # ""
          THEN Refuse("create", 400, createRefusal(cartRows, body))
          ELSE /\ procs' = [procs EXCEPT ![s] =
                      [IdleProc EXCEPT !.kind = "create", !.pc = "create_txn",
                                       !.user = u, !.items = cartRows]]
               /\ Silent
    /\ UNCHANGED <<orders, events, couriers, carts>>
    /\ UNCHANGED wvars

\* BEGIN; INSERT INTO orders ... 'pending'; INSERT INTO order_items per cart
\* row; DELETE FROM cart_items; INSERT INTO order_events 'pending'; COMMIT.
\* assignCourierIfPossible(orderId) follows the COMMIT.
OrderCreateTx(s) ==
    /\ procs[s].pc = "create_txn"
    /\ LET u == procs[s].user
           orderId == Len(orders) + 1
       IN /\ orders' = Append(orders, [user_id |-> u, status |-> "pending",
                                       assigned_courier_id |-> NULL,
                                       items |-> procs[s].items])
          /\ carts' = [carts EXCEPT ![u] = [p \in Products |-> 0]]
          /\ events' = Append(events, Event(orderId, "pending", "created", u))
          /\ procs' = [procs EXCEPT ![s] =
                 [IdleProc EXCEPT !.kind = "create", !.pc = "assign_select",
                                  !.order = orderId]]
    /\ UNCHANGED couriers
    /\ Silent
    /\ UNCHANGED wvars

----------------------------------------------------------------------------
(* assignCourierIfPossible and tryAssignOldestPendingOrder *)

\* SELECT id FROM orders WHERE assigned_courier_id IS NULL AND status =
\* 'pending' ORDER BY id ASC LIMIT 1
OldestSelect(s) ==
    /\ procs[s].pc = "oldest_select"
    /\ LET pending == {o \in DOMAIN orders :
                          orders[o].assigned_courier_id = NULL /\ orders[o].status = "pending"}
       IN IF pending = {}
          THEN Finish(s, FinalCode(procs[s].kind), "")
          ELSE /\ procs' = [procs EXCEPT ![s].pc = "assign_select",
                                         ![s].order = RowsOf(pending)[1]]
               /\ Silent
    /\ UNCHANGED <<orders, events, couriers, carts>>
    /\ UNCHANGED wvars

\* (selectCourierLastOnTies: the loop with active <= selected.active)
RECURSIVE selectCourierLastOnTies(_, _, _)
selectCourierLastOnTies(rows, os, selected) ==
    IF rows = << >> THEN selected
    ELSE LET row == Head(rows)
             active == getActiveOrderCountForCourier(os, row.id)
         IN selectCourierLastOnTies(Tail(rows), os,
                IF active >= row.max_active_orders THEN selected
                ELSE IF selected.id = NULL \/ active <= selected.active
                THEN [id |-> row.id, active |-> active]
                ELSE selected)

\* the loop over couriersRows: getActiveOrderCountForCourier of each row,
\* which is skipped at its limit and selected when no row before it had less
RECURSIVE selectCourier(_, _, _)
selectCourier(rows, os, selected) ==
    IF rows = << >> THEN selected
    ELSE LET row == Head(rows)
             active == getActiveOrderCountForCourier(os, row.id)
         IN selectCourier(Tail(rows), os,
                IF active >= row.max_active_orders THEN selected
                ELSE IF selected.id = NULL \/ active < selected.active
                THEN [id |-> row.id, active |-> active]
                ELSE selected)

\* SELECT id, max_active_orders FROM couriers WHERE status = 'available',
\* and the counts of the loop, read at one instant
AssignSelect(s) ==
    /\ procs[s].pc = "assign_select"
    /\ LET ids == RowsOf({c \in Couriers : couriers[c].status = "available"})
           couriersRows == [k \in DOMAIN ids |->
                               [id |-> ids[k],
                                max_active_orders |-> couriers[ids[k]].max_active_orders]]
           selected == selectCourier(couriersRows, orders, NoSelection)
       IN IF selected.id = NULL
          THEN Finish(s, FinalCode(procs[s].kind), "")
          ELSE /\ procs' = [procs EXCEPT ![s].pc = "assign_update",
                                         ![s].selected = selected]
               /\ Silent
    /\ UNCHANGED <<orders, events, couriers, carts>>
    /\ UNCHANGED wvars

\* UPDATE orders SET assigned_courier_id = $1, status = 'assigned' WHERE id = $3
\* (assignWriteCourierOnly: SET assigned_courier_id = $1 alone)
assignWriteCourierOnly(order, courierId) ==
    [order EXCEPT !.assigned_courier_id = courierId]
assignWrite(order, courierId) ==
    [order EXCEPT !.assigned_courier_id = courierId, !.status = "assigned"]

AssignUpdate(s) ==
    /\ procs[s].pc = "assign_update"
    /\ orders' = [orders EXCEPT ![procs[s].order] = assignWrite(@, procs[s].selected.id)]
    /\ procs' = [procs EXCEPT ![s].pc = "assign_event"]
    /\ UNCHANGED <<events, couriers, carts>>
    /\ Silent
    /\ UNCHANGED wvars

\* SELECT user_id FROM orders, then INSERT INTO order_events 'assigned'
InsertAssignEvent(s) ==
    /\ procs[s].pc = "assign_event"
    /\ events' = Append(events, Event(procs[s].order, "assigned", "auto",
                                      orders[procs[s].order].user_id))
    /\ Finish(s, FinalCode(procs[s].kind), "")
    /\ UNCHANGED <<orders, couriers, carts>>
    /\ UNCHANGED wvars

\* the statement while the order's log is short of MaxEvents
AssignEvent(s) == MayLog(procs[s].order) /\ InsertAssignEvent(s)

----------------------------------------------------------------------------
(* POST /api/orders/:orderId/claim *)

\* SELECT * FROM couriers WHERE user_id = $1 and courierEligible of the row,
\* then getActiveOrderCountForCourier against the row's max_active_orders
ClaimBegin(s, c, o) ==
    /\ CanStart(s)
    /\ IF ~courierEligible(couriers[c])
       THEN Refuse("claim", 403, "not_verified")
       ELSE IF getActiveOrderCountForCourier(orders, c) >= couriers[c].max_active_orders
       THEN Refuse("claim", 409, "limit")
       ELSE /\ procs' = [procs EXCEPT ![s] =
                   [IdleProc EXCEPT !.kind = "claim", !.pc = "claim_update",
                                    !.user = couriers[c].user_id, !.courier = c,
                                    !.order = o]]
            /\ Silent
    /\ UNCHANGED <<orders, events, couriers, carts>>
    /\ UNCHANGED wvars

\* WHERE id = $2 AND status = 'pending' AND assigned_courier_id IS NULL
\* (claimableAlways: WHERE id = $2 alone)
claimableAlways(os, o) == o \in DOMAIN os
claimable(os, o) ==
    /\ o \in DOMAIN os
    /\ os[o].status = "pending"
    /\ os[o].assigned_courier_id = NULL

\* UPDATE orders SET assigned_courier_id = $1, status = 'assigned' WHERE ...
\* RETURNING *; no row returned is answered 409
ClaimUpdate(s) ==
    /\ procs[s].pc = "claim_update"
    /\ IF claimable(orders, procs[s].order)
       THEN /\ orders' = [orders EXCEPT ![procs[s].order] =
                             assignWrite(@, procs[s].courier)]
            /\ procs' = [procs EXCEPT ![s].pc = "claim_event"]
            /\ Silent
       ELSE /\ Finish(s, 409, "unavailable")
            /\ UNCHANGED orders
    /\ UNCHANGED <<events, couriers, carts>>
    /\ UNCHANGED wvars

\* INSERT INTO order_events 'assigned', created by the courier's user
InsertClaimEvent(s) ==
    /\ procs[s].pc = "claim_event"
    /\ events' = Append(events, Event(procs[s].order, "assigned", "manual", procs[s].user))
    /\ Finish(s, 200, "")
    /\ UNCHANGED <<orders, couriers, carts>>
    /\ UNCHANGED wvars

ClaimEvent(s) == MayLog(procs[s].order) /\ InsertClaimEvent(s)

----------------------------------------------------------------------------
(* PATCH /api/orders/:orderId/status *)

courierAllowed == {"picked_up", "on_the_way", "delivered"}

\* (statusRefusalAnyOwner: the customer branch without order.user_id)
statusRefusalAnyOwner(u, o, status) ==
    IF o \notin DOMAIN orders THEN [code |-> 404, error |-> "not_found"]
    ELSE IF roleOf(u) = "customer" /\ status # "cancelled"
    THEN [code |-> 403, error |-> "customer"]
    ELSE [code |-> 0, error |-> ""]

\* what the handler checks of the order row and the caller before it writes
statusRefusal(u, o, status) ==
    IF o \notin DOMAIN orders THEN [code |-> 404, error |-> "not_found"]
    ELSE IF roleOf(u) = "customer" /\ (orders[o].user_id # u \/ status # "cancelled")
    THEN [code |-> 403, error |-> "customer"]
    ELSE IF roleOf(u) = "courier"
            /\ (\/ orders[o].assigned_courier_id # CourierOfUser(u)
                \/ status \notin courierAllowed)
    THEN [code |-> 403, error |-> "courier"]
    ELSE IF roleOf(u) = "courier" /\ ~courierEligible(couriers[CourierOfUser(u)])
    THEN [code |-> 403, error |-> "not_verified"]
    ELSE [code |-> 0, error |-> ""]

StatusBegin(s, u, o, status) ==
    /\ CanStart(s)
    /\ LET refusal == statusRefusal(u, o, status)
       IN IF refusal.code # 0
          THEN Refuse("status", refusal.code, refusal.error)
          ELSE /\ procs' = [procs EXCEPT ![s] =
                      [IdleProc EXCEPT !.kind = "status", !.pc = "status_update",
                                       !.user = u, !.order = o, !.status = status]]
               /\ Silent
    /\ UNCHANGED <<orders, events, couriers, carts>>
    /\ UNCHANGED wvars

\* UPDATE orders SET status = $1 WHERE id = $2
StatusUpdate(s) ==
    /\ procs[s].pc = "status_update"
    /\ orders' = [orders EXCEPT ![procs[s].order].status = procs[s].status]
    /\ procs' = [procs EXCEPT ![s].pc = "status_event"]
    /\ UNCHANGED <<events, couriers, carts>>
    /\ Silent
    /\ UNCHANGED wvars

\* INSERT INTO order_events; delivered and cancelled go on to
\* tryAssignOldestPendingOrder
InsertStatusEvent(s) ==
    /\ procs[s].pc = "status_event"
    /\ events' = Append(events, Event(procs[s].order, procs[s].status, "request", procs[s].user))
    /\ IF procs[s].status \in {"delivered", "cancelled"}
       THEN /\ procs' = [procs EXCEPT ![s] =
                   [IdleProc EXCEPT !.kind = "status", !.pc = "oldest_select"]]
            /\ Silent
       ELSE Finish(s, 200, "")
    /\ UNCHANGED <<orders, couriers, carts>>
    /\ UNCHANGED wvars

StatusEvent(s) == MayLog(procs[s].order) /\ InsertStatusEvent(s)

----------------------------------------------------------------------------
(* POST /api/couriers/connect *)

\* getOrCreateCourierForUser and courierEligible before 'available', then
\* UPDATE couriers SET vehicle_type = $1, status = $2 WHERE id = $3;
\* 'available' goes on to tryAssignOldestPendingOrder
ConnectBegin(s, c, nextStatus) ==
    /\ CanStart(s)
    /\ IF nextStatus = "available" /\ ~courierEligible(couriers[c])
       THEN /\ Refuse("connect", 403, "not_verified")
            /\ UNCHANGED couriers
       ELSE /\ couriers' = [couriers EXCEPT ![c].status = nextStatus]
            /\ IF nextStatus = "available"
               THEN /\ procs' = [procs EXCEPT ![s] =
                           [IdleProc EXCEPT !.kind = "connect", !.pc = "oldest_select"]]
                    /\ Silent
               ELSE Refuse("connect", 200, "")
    /\ UNCHANGED <<orders, events, carts>>
    /\ UNCHANGED wvars

----------------------------------------------------------------------------
(* Courier verification, and statements that fail *)

\* PATCH /api/couriers/me/verification: UPDATE couriers SET the transport
\* fields, verification_status = 'submitted'; the row's status is not touched
VerificationSubmit(c) ==
    /\ couriers' = [couriers EXCEPT ![c].verification_status = "submitted",
                                    ![c].evidence = TRUE]
    /\ resp' = [op |-> "verification", code |-> 200, error |-> ""]
    /\ UNCHANGED <<orders, events, carts, procs>>
    /\ UNCHANGED wvars

\* PATCH /api/admin/couriers/:courierId/verification: UPDATE couriers SET
\* verification_status = $1; the row's status is not touched
VerificationReview(c, status) ==
    /\ couriers' = [couriers EXCEPT ![c].verification_status = status]
    /\ resp' = [op |-> "review", code |-> 200, error |-> ""]
    /\ UNCHANGED <<orders, events, carts, procs>>
    /\ UNCHANGED wvars

DispatchSteps == {"oldest_select", "assign_select", "assign_update", "assign_event"}

\* what the caller gets when a statement of the dispatch attempt is rejected:
\* POST /api/orders awaits the attempt inside its try block, whose catch
\* answers 500; the other handlers await it outside any try, so the handler
\* ends without answering (code 0) unless the framework answers 500 for it
FaultAnswers(kind) ==
    IF kind = "create"
    THEN {[op |-> kind, code |-> 500, error |-> "exception"]}
    ELSE {[op |-> kind, code |-> 500, error |-> "exception"],
          [op |-> kind, code |-> 0, error |-> "unanswered"]}

\* the database rejects the statement the request of slot s sends next in
\* assignCourierIfPossible or tryAssignOldestPendingOrder
DispatchFault(s) ==
    /\ procs[s].pc \in DispatchSteps
    /\ procs' = [procs EXCEPT ![s] = IdleProc]
    /\ resp' \in FaultAnswers(procs[s].kind)
    /\ UNCHANGED <<orders, events, couriers, carts>>
    /\ UNCHANGED wvars

----------------------------------------------------------------------------
(* The dispatch specification *)

\* a verified courier who is on line and one who is not yet
InitCouriers ==
    [c \in Couriers |->
        [user_id |-> CourierUser(c),
         status |-> IF c = 1 THEN "available" ELSE "offline",
         verification_status |-> "approved",
         evidence |-> TRUE,
         max_active_orders |-> DefaultMaxActiveOrders]]

\* no order yet, an empty cart, both products on sale
Init ==
    /\ InitLedger(<< >>, 1, {1})
    /\ orders = << >>
    /\ events = << >>
    /\ couriers = InitCouriers
    /\ carts = [u \in Customers |-> [p \in Products |-> 0]]
    /\ procs = [s \in ProcSlots |-> IdleProc]

\* 'Москва, ул. Ленина, дом 44' and no coordinates
GoodAddress == <<Text(6, 6, FALSE), Text(10, 6, TRUE), House(2)>>
PlainBody ==
    [deliveryAddress |-> GoodAddress, hasLat |-> FALSE, deliveryLat |-> 0,
     hasLng |-> FALSE, deliveryLng |-> 0]

ConnectStatuses == {"available", "offline"}
ReviewStatuses == {"approved", "rejected"}

Next ==
    \/ \E u \in Customers : CartAdd(u, 1, 1)
    \/ \E s \in ProcSlots, u \in Customers : OrderCreateBegin(s, u, PlainBody)
    \/ \E s \in ProcSlots : OrderCreateTx(s)
    \/ \E s \in ProcSlots : OldestSelect(s)
    \/ \E s \in ProcSlots : AssignSelect(s)
    \/ \E s \in ProcSlots : AssignUpdate(s)
    \/ \E s \in ProcSlots : AssignEvent(s)
    \/ \E s \in ProcSlots, c \in Couriers, o \in 1..MaxOrders : ClaimBegin(s, c, o)
    \/ \E s \in ProcSlots : ClaimUpdate(s)
    \/ \E s \in ProcSlots : ClaimEvent(s)
    \/ \E s \in ProcSlots, u \in Users, o \in 1..MaxOrders, st \in OrderStatuses :
          StatusBegin(s, u, o, st)
    \/ \E s \in ProcSlots : StatusUpdate(s)
    \/ \E s \in ProcSlots : StatusEvent(s)
    \/ \E s \in ProcSlots, c \in Couriers, st \in ConnectStatuses : ConnectBegin(s, c, st)

Spec == Init /\ [][Next]_vars

\* addresses a request may carry: none, a good one, one without its house,
\* one with a locality of one character, one whose street is '12', one whose
\* house token is too long
Addresses ==
    {NoAddress,
     GoodAddress,
     <<Text(6, 6, FALSE), Text(10, 6, TRUE)>>,
     <<Text(1, 1, FALSE), Text(10, 6, TRUE), House(2)>>,
     <<Text(6, 6, FALSE), Text(2, 0, FALSE), House(2)>>,
     <<Text(6, 6, FALSE), Text(10, 6, TRUE), House(13)>>}
LatSamples == {-91, 0, 90}
LngSamples == {-180, 0, 181}
OrderBodies ==
    {b \in [deliveryAddress : Addresses,
            hasLat : BOOLEAN, deliveryLat : LatSamples,
            hasLng : BOOLEAN, deliveryLng : LngSamples] :
        /\ ~b.hasLat => b.deliveryLat = 0
        /\ ~b.hasLng => b.deliveryLng = 0}

\* carts and order creation with every body, on the store of Init
NextCheckout ==
    \/ \E u \in Customers, p \in Products : CartAdd(u, p, 1)
    \/ \E s \in ProcSlots, u \in Customers, body \in OrderBodies :
          OrderCreateBegin(s, u, body)
    \/ \E s \in ProcSlots : OrderCreateTx(s)
    \/ \E s \in ProcSlots : AssignSelect(s)
    \/ \E s \in ProcSlots : AssignUpdate(s)
    \/ \E s \in ProcSlots : AssignEvent(s)

SpecCheckout == Init /\ [][NextCheckout]_vars

\* a customer whose orders are in the store and who sends no request
OtherCustomer == 8

\* an orders row of the store with one line of product 1
StoredOrder(u, status, c) ==
    [user_id |-> u, status |-> status, assigned_courier_id |-> c,
     items |-> <<[product_id |-> 1, quantity |-> 1]>>]

\* the request of POST /api/orders that has just committed order o
Committed(o) ==
    [IdleProc EXCEPT !.kind = "create", !.pc = "assign_select", !.order = o]

\* Two orders placed while no courier was on line, each with the event of its
\* creation; the second may have been committed this instant, its request on
\* the way to assignCourierIfPossible.
InitFleet ==
    /\ InitLedger(<< >>, 1, {1})
    /\ orders = <<StoredOrder(1, "pending", NULL), StoredOrder(OtherCustomer, "pending", NULL)>>
    /\ events = <<Event(1, "pending", "created", 1),
                  Event(2, "pending", "created", OtherCustomer)>>
    /\ couriers = [InitCouriers EXCEPT ![1].status = "offline"]
    /\ carts = [u \in Customers |-> [p \in Products |-> 0]]
    /\ \E first \in {IdleProc, Committed(2)} :
          procs = [s \in ProcSlots |-> IF s = 1 THEN first ELSE IdleProc]

\* one request at a time here; verification changes and failures fall
\* between its statements
FleetSlots == {1}

NextFleet ==
    \/ \E s \in FleetSlots : OldestSelect(s)
    \/ \E s \in FleetSlots : AssignSelect(s)
    \/ \E s \in FleetSlots : AssignUpdate(s)
    \/ \E s \in FleetSlots : AssignEvent(s)
    \/ \E s \in FleetSlots, u \in Customers, o \in DOMAIN orders, st \in OrderStatuses :
          StatusBegin(s, u, o, st)
    \/ \E s \in FleetSlots : StatusUpdate(s)
    \/ \E s \in FleetSlots : StatusEvent(s)
    \/ \E s \in FleetSlots, c \in Couriers, st \in ConnectStatuses : ConnectBegin(s, c, st)
    \/ \E c \in Couriers : VerificationSubmit(c)
    \/ \E c \in Couriers, st \in ReviewStatuses : VerificationReview(c, st)
    \/ \E s \in FleetSlots : DispatchFault(s)

SpecFleet == InitFleet /\ [][NextFleet]_vars

\* the pending orders without a courier
PendingUnassigned ==
    {o \in DOMAIN orders : orders[o].status = "pending" /\ orders[o].assigned_courier_id = NULL}

\* what a courier may be carrying when an order comes in: nothing, one order,
\* one short of the limit, the limit
Loads == {0, 1, DefaultMaxActiveOrders - 1, DefaultMaxActiveOrders}
FleetStatuses == {"available", "offline", "busy"}

\* the k-th order a courier carries
CarriedStatus(k) ==
    CASE k % 3 = 1 -> "assigned"
      [] k % 3 = 2 -> "picked_up"
      [] OTHER -> "on_the_way"

\* the orders rows of couriers 1..c, load[c2] of them carried by courier c2
\* and one more that courier has delivered
RECURSIVE CarriedOrders(_, _)
CarriedOrders(c, load) ==
    IF c = 0 THEN << >>
    ELSE CarriedOrders(c - 1, load)
         \o [k \in 1..load[c] |-> StoredOrder(OtherCustomer, CarriedStatus(k), c)]
         \o <<StoredOrder(OtherCustomer, "delivered", c)>>

\* the order_events rows the requests behind the first n orders rows left
RECURSIVE StoredEvents(_, _)
StoredEvents(os, n) ==
    IF n = 0 THEN << >>
    ELSE LET o == os[n]
         IN StoredEvents(os, n - 1)
            \o <<Event(n, "pending", "created", o.user_id)>>
            \o (IF o.status = "pending" THEN << >>
                ELSE <<Event(n, "assigned", "auto", o.user_id)>>)
            \o (IF o.status \in {"pending", "assigned"} THEN << >>
                ELSE <<Event(n, o.status, "request", CourierUser(o.assigned_courier_id))>>)

\* an order placed while nobody was on line may still be waiting: a backfill
\* takes one order a trigger
Waiting == {<< >>, <<StoredOrder(OtherCustomer, "pending", NULL)>>}

\* A fleet of verified couriers in any status with any of the loads, perhaps
\* an order that is still waiting, and the order customer 1 has just placed,
\* its request on the way to assignCourierIfPossible.
InitSelect ==
    /\ InitLedger(<< >>, 1, {1})
    /\ carts = [u \in Customers |-> [p \in Products |-> 0]]
    /\ \E status \in [Couriers -> FleetStatuses], load \in [Couriers -> Loads],
          waiting \in Waiting :
          LET os == CarriedOrders(NumCouriers, load) \o waiting
                    \o <<StoredOrder(1, "pending", NULL)>>
          IN /\ orders = os
             /\ events = StoredEvents(os, Len(os))
             /\ couriers = [c \in Couriers |-> [InitCouriers[c] EXCEPT !.status = status[c]]]
             /\ procs = [s \in ProcSlots |-> IF s = 1 THEN Committed(Len(os)) ELSE IdleProc]

NextSelect ==
    \/ \E s \in ProcSlots : AssignSelect(s)
    \/ \E s \in ProcSlots : AssignUpdate(s)
    \/ \E s \in ProcSlots : AssignEvent(s)

SpecSelect == InitSelect /\ [][NextSelect]_vars

\* Both couriers verified and on line with any of the loads, and two orders
\* placed this instant, the requests of both on the way to
\* assignCourierIfPossible, or both answered with nobody selected.
InitCapacity ==
    /\ InitLedger(<< >>, 1, {1})
    /\ carts = [u \in Customers |-> [p \in Products |-> 0]]
    /\ \E load \in [Couriers -> Loads], inFlight \in BOOLEAN :
          LET carried == CarriedOrders(NumCouriers, load)
              os == carried \o <<StoredOrder(1, "pending", NULL),
                                  StoredOrder(OtherCustomer, "pending", NULL)>>
          IN /\ orders = os
             /\ events = StoredEvents(os, Len(os))
             /\ couriers = [c \in Couriers |->
                               [InitCouriers[c] EXCEPT !.status =
                                   IF inFlight THEN "available" ELSE "offline"]]
             /\ procs = [s \in ProcSlots |->
                            IF inFlight /\ s <= 2 THEN Committed(Len(carried) + s)
                            ELSE IdleProc]

\* automatic assignment and manual claims of the waiting orders
NextCapacity ==
    \/ \E s \in ProcSlots : AssignSelect(s)
    \/ \E s \in ProcSlots : AssignUpdate(s)
    \/ \E s \in ProcSlots : AssignEvent(s)
    \/ \E s \in ProcSlots, c \in Couriers, o \in PendingUnassigned : ClaimBegin(s, c, o)
    \/ \E s \in ProcSlots : ClaimUpdate(s)
    \/ \E s \in ProcSlots : ClaimEvent(s)

SpecCapacity == InitCapacity /\ [][NextCapacity]_vars

\* the log of an order may take the events of two more writers here
MaxLog == 3
MayLogMore(o) == EventsOf(o) < MaxLog

LogAssignEvent(s) == MayLogMore(procs[s].order) /\ InsertAssignEvent(s)
LogClaimEvent(s) == MayLogMore(procs[s].order) /\ InsertClaimEvent(s)
LogStatusEvent(s) == MayLogMore(procs[s].order) /\ InsertStatusEvent(s)

\* One order, pending, with the event of its creation; courier 1 is on
\* line.  The order may have been committed this instant, its request on the
\* way to assignCourierIfPossible.
InitLog ==
    /\ InitLedger(<< >>, 1, {1})
    /\ orders = <<StoredOrder(1, "pending", NULL)>>
    /\ events = StoredEvents(orders, 1)
    /\ couriers = InitCouriers
    /\ carts = [u \in Customers |-> [p \in Products |-> 0]]
    /\ \E first \in {IdleProc, Committed(1)} :
          procs = [s \in ProcSlots |-> IF s = 1 THEN first ELSE IdleProc]

\* the customer and the couriers write the order's status at the same time
NextLog ==
    \/ \E s \in ProcSlots : OldestSelect(s)
    \/ \E s \in ProcSlots : AssignSelect(s)
    \/ \E s \in ProcSlots : AssignUpdate(s)
    \/ \E s \in ProcSlots : LogAssignEvent(s)
    \/ \E s \in ProcSlots, c \in Couriers, o \in DOMAIN orders : ClaimBegin(s, c, o)
    \/ \E s \in ProcSlots : ClaimUpdate(s)
    \/ \E s \in ProcSlots : LogClaimEvent(s)
    \/ \E s \in ProcSlots, u \in Customers \cup CourierUsers, o \in DOMAIN orders,
             st \in OrderStatuses : StatusBegin(s, u, o, st)
    \/ \E s \in ProcSlots : StatusUpdate(s)
    \/ \E s \in ProcSlots : LogStatusEvent(s)

SpecLog == InitLog /\ [][NextLog]_vars

----------------------------------------------------------------------------
(* Properties of order dispatch *)

\* C1 (as the specification states it): once an order has a courier, no step
\* gives it another one.
C1_CourierNeverOverwritten ==
    [][\A o \in DOMAIN orders :
          orders[o].assigned_courier_id # NULL
          => orders'[o].assigned_courier_id = orders[o].assigned_courier_id]_vars

ManualClaims(o) ==
    Cardinality({k \in DOMAIN events :
                    events[k].order_id = o /\ events[k].comment = "manual"})
ClaimsWon(o) ==
    Cardinality({s \in ProcSlots : procs[s].pc = "claim_event" /\ procs[s].order = o})

\* C2: manual claim is a compare-and-swap.  Of all claim requests on an order
\* at most one ever wins it (one 'assigned' event of a manual claim at most,
\* counting the winner that has still to write it); the claim that finds the
\* order pending and unassigned assigns it to its courier, and every other
\* claim is answered 409 and leaves orders and order_events as they were.
C2_ClaimCompareAndSwap ==
    /\ [](\A o \in 1..MaxOrders : ManualClaims(o) + ClaimsWon(o) <= 1)
    /\ [][\A s \in ProcSlots :
             (procs[s].pc = "claim_update" /\ ClaimUpdate(s))
             => LET o == procs[s].order
                IN IF /\ o \in DOMAIN orders
                      /\ orders[o].status = "pending"
                      /\ orders[o].assigned_courier_id = NULL
                   THEN /\ orders'[o].assigned_courier_id = procs[s].courier
                        /\ orders'[o].status = "assigned"
                        /\ procs'[s].pc = "claim_event"
                   ELSE /\ resp'.code = 409
                        /\ orders' = orders
                        /\ events' = events
                        /\ procs'[s].pc = "idle"]_vars

\* two couriers claimed the same order at once: one won it and wrote the
\* event, the other has just been answered 409
C2_Witness ==
    /\ resp = [op |-> "claim", code |-> 409, error |-> "unavailable"]
    /\ \E o \in DOMAIN orders :
          /\ ManualClaims(o) = 1
          /\ orders[o].status = "assigned"
          /\ \E k \in DOMAIN events :
                /\ events[k].comment = "manual"
                /\ events[k].created_by = CourierUser(orders[o].assigned_courier_id)

\* C10 (as the specification states it): no step changes the status of an
\* order that is delivered or cancelled.
C10_TerminalOrderStatus ==
    [][\A o \in DOMAIN orders :
          orders[o].status \in {"delivered", "cancelled"}
          => orders'[o].status = orders[o].status]_vars

\* the successor of a status on the courier's path, "" where there is none
nextOnRoute(status) ==
    CASE status = "assigned" -> "picked_up"
      [] status = "picked_up" -> "on_the_way"
      [] status = "on_the_way" -> "delivered"
      [] OTHER -> ""

\* C11 (as the specification states it): a courier's status request writes
\* the order only when the order is assigned to that courier, the courier is
\* eligible, and the requested status is the immediate successor of the
\* order's status on assigned -> picked_up -> on_the_way -> delivered.
C11_CourierRouteOnly ==
    [][\A s \in ProcSlots :
          (/\ procs[s].pc = "status_update"
           /\ roleOf(procs[s].user) = "courier"
           /\ StatusUpdate(s))
          => LET o == procs[s].order
                 c == CourierOfUser(procs[s].user)
             IN /\ orders[o].assigned_courier_id = c
                /\ courierEligible(couriers[c])
                /\ procs[s].status = nextOnRoute(orders[o].status)]_vars

\* C13 (as the specification states it): a status request of the
\* administrator writes the order only when the requested status is assigned
\* or cancelled.
C13_AdminOverrideTargets ==
    [][\A s \in ProcSlots :
          (/\ procs[s].pc = "status_update"
           /\ roleOf(procs[s].user) = "admin"
           /\ StatusUpdate(s))
          => procs[s].status \in {"assigned", "cancelled"}]_vars

\* C17 (as the specification states it): the items of the order a request
\* creates are exactly the cart lines its transaction removes from the cart.
C17_OrderTakesTheCart ==
    [][\A s \in ProcSlots :
          (procs[s].pc = "create_txn" /\ OrderCreateTx(s))
          => orders'[Len(orders')].items = cartRowsOf(procs[s].user)]_vars

\* the requests that have written the status of order o and have still to
\* insert the event of that write
EventsOwed(o) ==
    Cardinality({s \in ProcSlots :
                    /\ procs[s].order = o
                    /\ procs[s].pc \in {"assign_event", "claim_event", "status_event"}})

\* the step runs one of the three UPDATEs of orders.status on order o, or the
\* INSERT that creates it
WritesStatusOf(o) ==
    \/ o \notin DOMAIN orders
    \/ \E s \in ProcSlots :
          /\ procs[s].order = o
          /\ procs[s].pc \in {"assign_update", "claim_update", "status_update"}
          /\ procs'[s].pc \in {"assign_event", "claim_event", "status_event"}

\* the status the request of slot s wrote last
StatusWrittenBy(s) ==
    IF procs[s].pc = "status_event" THEN procs[s].status ELSE "assigned"

Qualifying ==
    {c \in Couriers :
        /\ couriers[c].status = "available"
        /\ getActiveOrderCountForCourier(orders, c) < couriers[c].max_active_orders}

C25_FifoOnePerTrigger ==
    [][\A s \in ProcSlots :
          /\ (procs[s].pc = "assign_update" /\ procs'[s].pc = "assign_event")
             => \A o \in PendingUnassigned : procs[s].order <= o
          /\ (procs[s].pc = "assign_event" /\ procs'[s] # procs[s])
             => procs'[s].pc = "idle"]_vars

\* C27: an order on its way has a courier and a pending order has none: in
\* every reachable state an order in status assigned, picked_up or on_the_way
\* has a non-null assigned courier, and an order in status pending has a null
\* one.
C27_StatusCourierConsistent ==
    \A o \in DOMAIN orders :
        /\ orders[o].status \in {"assigned", "picked_up", "on_the_way"} => orders[o].assigned_courier_id # NULL
        /\ orders[o].status = "pending" => orders[o].assigned_courier_id = NULL

----------------------------------------------------------------------------
(* Properties checked on the store of SpecFleet *)

C14_AutoAssignEligibleOnly ==
    [][\A s \in ProcSlots :
          /\ (procs[s].pc = "assign_select" /\ procs'[s].pc = "assign_update")
             => LET c == procs'[s].selected.id
                IN couriers[c].status = "available" /\ courierEligible(couriers[c])
          /\ (procs[s].pc = "assign_update" /\ procs'[s].pc = "assign_event")
             => LET c == procs[s].selected.id
                IN /\ orders'[procs[s].order].assigned_courier_id = c
                   /\ couriers[c].status = "available"
                   /\ courierEligible(couriers[c])]_vars

\* C18 (as the specification states it): when a statement of the dispatch
\* attempt that follows a committed order creation or a status change to
\* delivered or cancelled fails, the store keeps what the request wrote and
\* the caller gets the success answer of the request.
C18_DispatchFailureIsolated ==
    [][\A s \in ProcSlots :
          (/\ procs[s].kind \in {"create", "status"}
           /\ procs[s].pc \in DispatchSteps
           /\ DispatchFault(s))
          => /\ orders' = orders
             /\ events' = events
             /\ carts' = carts
             /\ resp' = [op |-> procs[s].kind, code |-> FinalCode(procs[s].kind),
                         error |-> ""]]_vars

----------------------------------------------------------------------------
(* Properties checked on the fleets of SpecSelect *)

\* the couriers with the least active orders among those that qualify
LeastLoaded ==
    {c \in Qualifying :
        \A c2 \in Qualifying :
            getActiveOrderCountForCourier(orders, c)
                <= getActiveOrderCountForCourier(orders, c2)}

\* C15: least-load selection.  assignCourierIfPossible considers the couriers
\* that are available with fewer active orders than their max_active_orders;
\* if there is none it returns with the order still pending and no event
\* written; otherwise it selects the one of least id among those with the
\* fewest active orders, and its UPDATE writes the order assigned to the
\* selected courier.
C15_LeastLoadSelection ==
    [][\A s \in ProcSlots :
          /\ (procs[s].pc = "assign_select" /\ procs'[s] # procs[s])
             => IF Qualifying = {}
                THEN /\ procs'[s].pc = "idle"
                     /\ orders' = orders
                     /\ events' = events
                     /\ orders[procs[s].order].status = "pending"
                ELSE /\ procs'[s].pc = "assign_update"
                     /\ procs'[s].order = procs[s].order
                     /\ procs'[s].selected.id \in LeastLoaded
                     /\ \A c \in LeastLoaded : procs'[s].selected.id <= c
          /\ (procs[s].pc = "assign_update" /\ procs'[s] # procs[s])
             => /\ orders'[procs[s].order].assigned_courier_id = procs[s].selected.id
                /\ orders'[procs[s].order].status = "assigned"
                /\ \A o \in DOMAIN orders : o # procs[s].order => orders'[o] = orders[o]]_vars

\* courier 1 is at the limit and courier 2 was one short of it: the new order
\* went to courier 2, who is at the limit now
C15_Witness ==
    \E s \in ProcSlots :
        /\ procs[s].pc = "assign_event"
        /\ couriers[1].status = "available"
        /\ couriers[2].status = "available"
        /\ orders[procs[s].order].assigned_courier_id = 2
        /\ orders[procs[s].order].status = "assigned"
        /\ getActiveOrderCountForCourier(orders, 1) = DefaultMaxActiveOrders
        /\ getActiveOrderCountForCourier(orders, 2) = DefaultMaxActiveOrders

----------------------------------------------------------------------------
(* Properties checked on SpecCheckout *)

\* C21: order creation validates before it writes.  A request with an empty
\* cart, an address that does not parse, a street that fails the street-name
\* check, one coordinate without the other, or a coordinate out of range is
\* answered 400; no order, item or event is created, the cart is unchanged
\* and the request ends there, without a courier assignment attempted.
C21_ValidationBeforeWrites ==
    [][\A s \in ProcSlots, u \in Customers, body \in OrderBodies :
          (/\ procs[s].pc = "idle"
           /\ LET parsed == parseDeliveryAddress(body.deliveryAddress)
              IN \/ \A p \in Products : carts[u][p] = 0
                 \/ ~parsed.matched
                 \/ ~hasStreetName(parsed.street)
                 \/ body.hasLat # body.hasLng
                 \/ body.hasLat /\ (body.deliveryLat < -90 \/ body.deliveryLat > 90)
                 \/ body.hasLng /\ (body.deliveryLng < -180 \/ body.deliveryLng > 180)
           /\ OrderCreateBegin(s, u, body))
          => /\ resp'.op = "create"
             /\ resp'.code = 400
             /\ orders' = orders
             /\ events' = events
             /\ carts' = carts
             /\ couriers' = couriers
             /\ procs' = procs]_vars

\* a request with a filled cart has just been refused for its coordinates
C21_Witness ==
    /\ resp = [op |-> "create", code |-> 400, error |-> "coordinates_range"]
    /\ \E u \in Customers, p \in Products : carts[u][p] > 0
    /\ orders = << >>
    /\ events = << >>

----------------------------------------------------------------------------
(* Properties checked on SpecCapacity *)

\* C26 (as the specification states it): no courier ever has more orders in
\* assigned, picked_up or on_the_way than their max_active_orders.
C26_CapacityNeverExceeded ==
    \A c \in Couriers :
        getActiveOrderCountForCourier(orders, c) <= couriers[c].max_active_orders

----------------------------------------------------------------------------
(* Properties checked on SpecLocks *)

\* transaction t waits for a row lock that transaction u holds
Waits(t, u) ==
    /\ t # u
    /\ \/ txs[t].pc = "lock_row" /\ nextRowOf(txs[t]) \in txs[u].held
       \/ txs[t].pc = "lock_task" /\ txs[t].task \in txs[u].heldTasks

----------------------------------------------------------------------------
(* Properties checked on SpecLog *)

\* the order_events row of order o with the largest id
LastEvent(o) ==
    LET ks == {k \in DOMAIN events : events[k].order_id = o}
    IN events[CHOOSE k \in ks : \A k2 \in ks : k2 <= k]

\* C30: the log agrees with the order once its writers have finished: in
\* every state with no request in flight, the most recent order_events row of
\* every order carries the status the orders row has.
C30_LastEventIsStatus ==
    (\A s \in ProcSlots : procs[s].pc = "idle")
        => \A o \in DOMAIN orders : LastEvent(o).status = orders[o].status

====
